---- MODULE Spec2Model ----
(***************************************************************************)
(* A model of the document surgery of lopdf's src/processor.rs: object     *)
(* deletion, pruning, renumbering, page deletion, page content replacement *)
(* and attachments, over the Document's object table, trailer and max_id.  *)
(***************************************************************************)
EXTENDS Integers, Sequences, FiniteSets, TLC

VARIABLES
    objects,        \* Document::objects : ObjectId -> Object
    trailer,        \* Document::trailer : Dictionary
    max_id,         \* Document::max_id
    op,             \* the last operation called ("none" after construction)
    arg,            \* its argument
    ret,            \* its return value
    objects0,       \* the object table when the last operation was called
    trailer0,       \* the trailer when the last operation was called
    pc,             \* delete_pages: position in the handler
    pages,          \* delete_pages: the page index built at line 45
    queue,          \* delete_pages: page numbers of the batch still to process
    page_tree_ref,  \* delete_pages: the local of that name (lines 48-57)
    skipped,        \* delete_pages: page numbers of the batch so far that named no page
    calls           \* the number of operations called so far

vars == <<objects, trailer, max_id, op, arg, ret, objects0, trailer0,
          pc, pages, queue, page_tree_ref, skipped, calls>>

docVars == <<objects, trailer, max_id>>
pageVars == <<pc, pages, queue, page_tree_ref, skipped>>

----------------------------------------------------------------------------
(* Bounds of the model. *)

MaxObjects == 2    \* initial tables hold at most MaxObjects objects
MaxStart == 2      \* renumber_objects_with is called with 1..MaxStart
MaxCalls == 1      \* operations called on one document
MaxLeaves == 2     \* leaf pages under the inner page-tree node of the initial trees
MaxBatch == 2      \* page numbers handed to one delete_pages call
MaxAttach == 2     \* attachment operations called on one document

----------------------------------------------------------------------------
(* Object: a tagged value [t, v].  ObjectId: <<number, generation>>.        *)

Null == [t |-> "null", v |-> 0]
Integer(n) == [t |-> "int", v |-> n]
Str(s) == [t |-> "str", v |-> s]
Name(s) == [t |-> "name", v |-> s]
Ref(id) == [t |-> "ref", v |-> id]
Arr(s) == [t |-> "arr", v |-> s]
Dict(d) == [t |-> "dict", v |-> d]
Stream(d, c) == [t |-> "stream", v |-> [dict |-> d, content |-> c]]

EmptyDict == [k \in {} |-> Null]

Restrict(f, S) == [k \in S |-> f[k]]

\* Dictionary::set: insert or overwrite one entry.
DictSet(d, key, val) == [k \in DOMAIN d \cup {key} |-> IF k = key THEN val ELSE d[k]]

\* Dictionary::remove.
DictRemove(d, key) == Restrict(d, DOMAIN d \ {key})

\* BTreeMap::insert on the object table.
Insert(objs, id, val) == [k \in DOMAIN objs \cup {id} |-> IF k = id THEN val ELSE objs[k]]

\* Vec::remove(index).
SeqRemove(s, index) == [i \in 1..(Len(s) - 1) |-> IF i < index THEN s[i] ELSE s[i + 1]]

\* The derived Ord of ObjectId = (u32, u16): lexicographic.
IdLess(a, b) == a[1] < b[1] \/ (a[1] = b[1] /\ a[2] < b[2])

MinId(S) == CHOOSE x \in S : \A y \in S : x = y \/ IdLess(x, y)

\* The keys of a BTreeMap in iteration order; Vec::sort of ObjectIds.
RECURSIVE SortIds(_)
SortIds(S) == IF S = {} THEN <<>> ELSE <<MinId(S)>> \o SortIds(S \ {MinId(S)})

SeqToSet(s) == {s[i] : i \in 1..Len(s)}

IsRefTo(item, id) == item.t = "ref" /\ item.v = id

----------------------------------------------------------------------------
(* The closures handed to traverse_objects.                                 *)

\* delete_object's closure (lines 85-108).
DeleteAction(id, object) ==
    CASE object.t = "arr" ->
            LET hits == {i \in 1..Len(object.v) : IsRefTo(object.v[i], id)}
            IN  IF hits = {} THEN object
                ELSE Arr(SeqRemove(object.v, CHOOSE i \in hits : \A j \in hits : i <= j))
      [] object.t = "dict" ->
            Dict(Restrict(object.v, {k \in DOMAIN object.v : ~IsRefTo(object.v[k], id)}))
      [] OTHER -> object

\* A faulty variant of the closure: the rewritten reference loses its generation.
RenumberActionNoGen(replace, object) ==
    IF object.t = "ref" /\ object.v \in DOMAIN replace
    THEN Ref(<<replace[object.v][1], 0>>)
    ELSE object

\* renumber_objects_with's closure (lines 170-176).
RenumberAction(replace, object) ==
    IF object.t = "ref" /\ object.v \in DOMAIN replace
    THEN Ref(replace[object.v])
    ELSE object

ApplyAction(action, object) ==
    CASE action.kind = "delete" -> DeleteAction(action.id, object)
      [] action.kind = "renumber" -> RenumberAction(action.replace, object)
      [] OTHER -> object

----------------------------------------------------------------------------
(* traverse_objects.  Rewrite pass: the closure is applied to every value   *)
(* node of the trailer and of every object of the table, to a container     *)
(* before its members, without following references.                        *)

RECURSIVE traverse_object(_, _)
traverse_object(action, object) ==
    LET o == ApplyAction(action, object)
    IN  CASE o.t = "arr" ->
                Arr([i \in 1..Len(o.v) |-> traverse_object(action, o.v[i])])
          [] o.t = "dict" ->
                Dict([k \in DOMAIN o.v |-> traverse_object(action, o.v[k])])
          [] o.t = "stream" ->
                Stream([k \in DOMAIN o.v.dict |-> traverse_object(action, o.v.dict[k])],
                       o.v.content)
          [] OTHER -> o

RewriteTrailer(action, tr) == traverse_object(action, Dict(tr)).v

RewriteObjects(action, objs) == [id \in DOMAIN objs |-> traverse_object(action, objs[id])]

(* Reachability pass: the references met, in the order met, each once; the  *)
(* worklist is the list itself, walked by index.                            *)

RECURSIVE AppendNew(_, _)
AppendNew(refs, more) ==
    IF more = <<>> THEN refs
    ELSE AppendNew(IF Head(more) \in SeqToSet(refs) THEN refs ELSE Append(refs, Head(more)),
                   Tail(more))

RECURSIVE Flatten(_)
Flatten(ss) == IF ss = <<>> THEN <<>> ELSE Head(ss) \o Flatten(Tail(ss))

\* A fixed enumeration order of a dictionary's keys.
RECURSIVE KeySeq(_)
KeySeq(S) ==
    IF S = {} THEN <<>>
    ELSE LET k == CHOOSE x \in S : TRUE IN <<k>> \o KeySeq(S \ {k})

\* The references contained in a value, in visiting order.
RECURSIVE RefsIn(_)
RefsIn(o) ==
    CASE o.t = "ref" -> <<o.v>>
      [] o.t = "arr" -> Flatten([i \in 1..Len(o.v) |-> RefsIn(o.v[i])])
      [] o.t = "dict" ->
            LET ks == KeySeq(DOMAIN o.v)
            IN  Flatten([i \in 1..Len(ks) |-> RefsIn(o.v[ks[i]])])
      [] o.t = "stream" ->
            LET ks == KeySeq(DOMAIN o.v.dict)
            IN  Flatten([i \in 1..Len(ks) |-> RefsIn(o.v.dict[ks[i]])])
      [] OTHER -> <<>>

RECURSIVE Worklist(_, _, _)
Worklist(objs, refs, index) ==
    IF index > Len(refs) THEN refs
    ELSE IF refs[index] \in DOMAIN objs
         THEN Worklist(objs, AppendNew(refs, RefsIn(objs[refs[index]])), index + 1)
         ELSE Worklist(objs, refs, index + 1)

\* The identities traverse_objects returns.
traverse_refs(objs, tr) == Worklist(objs, AppendNew(<<>>, RefsIn(Dict(tr))), 1)

----------------------------------------------------------------------------
(* prune_objects (lines 67-81).                                             *)

\* A faulty variant: the identities that are referenced are collected.
PruneIdsInverted(objs, refs) ==
    SelectSeq(SortIds(DOMAIN objs), LAMBDA id : id \in SeqToSet(refs))

\* lines 68-74: the identities of the table that traverse_objects did not return.
PruneIds(objs, refs) ==
    SelectSeq(SortIds(DOMAIN objs), LAMBDA id : id \notin SeqToSet(refs))

\* lines 76-78
RemoveAll(objs, ids) == Restrict(objs, DOMAIN objs \ SeqToSet(ids))

prune_objects ==
    LET ids == PruneIds(objects, traverse_refs(objects, trailer))
    IN  /\ objects' = RemoveAll(objects, ids)
        /\ ret' = ids
        /\ UNCHANGED <<trailer, max_id>>

----------------------------------------------------------------------------
(* delete_object (lines 84-111).                                            *)

DeleteScrub(id) == [kind |-> "delete", id |-> id]

\* The table and trailer after delete_object(id).
DeletedObjects(objs, id) ==
    LET scrubbed == RewriteObjects(DeleteScrub(id), objs)
    IN  Restrict(scrubbed, DOMAIN scrubbed \ {id})

DeletedTrailer(tr, id) == RewriteTrailer(DeleteScrub(id), tr)

\* Option<Object>: <<>> is None, <<object>> is Some(object).
DeletedValue(objs, id) ==
    LET scrubbed == RewriteObjects(DeleteScrub(id), objs)
    IN  IF id \in DOMAIN scrubbed THEN <<scrubbed[id]>> ELSE <<>>

delete_object(id) ==
    /\ objects' = DeletedObjects(objects, id)
    /\ trailer' = DeletedTrailer(trailer, id)
    /\ UNCHANGED max_id

----------------------------------------------------------------------------
(* renumber_objects_with (lines 142-181).                                   *)

\* line 150: the new identity keeps the generation.
NewIdentity(id, new_id) == <<new_id, id[2]>>

\* lines 148-154: the substitution map, over the sorted identities.
RECURSIVE ReplaceMap(_, _, _)
ReplaceMap(ids, new_id, replace) ==
    IF ids = <<>> THEN replace
    ELSE LET id == Head(ids)
         IN  ReplaceMap(Tail(ids), new_id + 1,
                        IF id[1] # new_id
                        THEN Insert(replace, id, NewIdentity(id, new_id))
                        ELSE replace)

\* A faulty variant of the relocation: in place, one identity after the other.
RECURSIVE MoveInPlace(_, _, _)
MoveInPlace(objs, olds, replace) ==
    IF olds = <<>> THEN objs
    ELSE LET old == Head(olds)
         IN  MoveInPlace(IF old \in DOMAIN objs
                         THEN Insert(Restrict(objs, DOMAIN objs \ {old}), replace[old], objs[old])
                         ELSE objs,
                         Tail(olds), replace)

RelocateInPlace(objs, replace) == MoveInPlace(objs, SortIds(DOMAIN replace), replace)

\* lines 156-168: remove every source into a buffer, then insert under the new keys.
Relocate(objs, replace) ==
    LET olds == DOMAIN replace \cap DOMAIN objs
        news == {replace[o] : o \in olds}
        \* a later insert under the same key overwrites an earlier one
        src(n) == CHOOSE o \in olds :
                    /\ replace[o] = n
                    /\ \A o2 \in olds : replace[o2] = n => (o2 = o \/ IdLess(o2, o))
        rest == Restrict(objs, DOMAIN objs \ olds)
    IN  [k \in DOMAIN rest \cup news |-> IF k \in news THEN objs[src(k)] ELSE rest[k]]

renumber_objects_with(starting_id) ==
    LET ids == SortIds(DOMAIN objects)
        replace == ReplaceMap(ids, starting_id, EmptyDict)
        action == [kind |-> "renumber", replace |-> replace]
    IN  /\ objects' = RewriteObjects(action, Relocate(objects, replace))
        /\ trailer' = RewriteTrailer(action, trailer)
        /\ max_id' = starting_id + Len(ids) - 1

----------------------------------------------------------------------------
(* Documents of the graph specification.                                    *)

GraphIds == {<<1, 0>>, <<1, 1>>, <<2, 0>>, <<3, 0>>}

Tag(id) == Integer(10 * id[1] + id[2])

MaxNumber(objs) ==
    IF DOMAIN objs = {} THEN 0
    ELSE CHOOSE n \in {id[1] : id \in DOMAIN objs} : \A id \in DOMAIN objs : id[1] <= n

\* The value shapes of the initial tables: x and y are the identities referenced.
Shape(k, id, x, y) ==
    CASE k = 1 -> Dict([Tag |-> Tag(id)])
      [] k = 2 -> Arr(<<Ref(x), Tag(id), Ref(x)>>)
      [] k = 3 -> Dict([Tag |-> Tag(id), A |-> Ref(x), B |-> Arr(<<Ref(y)>>)])
      [] OTHER -> Stream([Tag |-> Tag(id), Length |-> Ref(y)], <<115>>)

NextOf(x) == IF x = <<1, 0>> THEN <<1, 1>>
             ELSE IF x = <<1, 1>> THEN <<2, 0>>
             ELSE IF x = <<2, 0>> THEN <<3, 0>> ELSE <<1, 0>>

SnapshotWithin(o, a, limit) ==
    /\ calls < limit
    /\ calls' = calls + 1
    /\ op' = o
    /\ arg' = a
    /\ objects0' = objects
    /\ trailer0' = trailer

Snapshot(o, a) == SnapshotWithin(o, a, MaxCalls)

InitGraph ==
    /\ \E P \in SUBSET GraphIds :
         /\ P # {}
         /\ Cardinality(P) <= MaxObjects
         /\ \E x \in GraphIds : \E shapes \in [P -> 1..4] :
              objects = [id \in P |-> Shape(shapes[id], id, x, NextOf(x))]
         /\ \E r \in {<<1, 0>>, <<2, 0>>} :
              trailer = [Root |-> Ref(r), ID |-> Arr(<<Ref(r), Integer(0)>>)]
    /\ max_id = MaxNumber(objects)
    /\ op = "none" /\ arg = 0 /\ ret = <<>>
    /\ objects0 = objects /\ trailer0 = trailer
    /\ pc = "idle" /\ pages = <<>> /\ queue = <<>> /\ page_tree_ref = <<>>
    /\ skipped = 0
    /\ calls = 0

DeleteObject ==
    \E id \in GraphIds :
        /\ delete_object(id)
        /\ ret' = DeletedValue(objects, id)
        /\ Snapshot("delete_object", id)
        /\ UNCHANGED pageVars

PruneObjects ==
    /\ prune_objects
    /\ Snapshot("prune_objects", 0)
    /\ UNCHANGED pageVars

RenumberObjectsWith ==
    \E s \in 1..MaxStart :
        /\ renumber_objects_with(s)
        /\ ret' = <<>>
        /\ Snapshot("renumber_objects_with", s)
        /\ UNCHANGED pageVars

NextGraph == DeleteObject \/ PruneObjects \/ RenumberObjectsWith

SpecGraph == InitGraph /\ [][NextGraph]_vars

----------------------------------------------------------------------------
(* Notions the properties are stated with.                                  *)

\* The identities a value references, at any depth.
RECURSIVE RefSet(_)
RefSet(o) ==
    CASE o.t = "ref" -> {o.v}
      [] o.t = "arr" -> UNION {RefSet(o.v[i]) : i \in 1..Len(o.v)}
      [] o.t = "dict" -> UNION {RefSet(o.v[k]) : k \in DOMAIN o.v}
      [] o.t = "stream" -> UNION {RefSet(o.v.dict[k]) : k \in DOMAIN o.v.dict}
      [] OTHER -> {}

RECURSIVE Closure(_, _)
Closure(objs, R) ==
    LET R2 == R \cup UNION {RefSet(objs[id]) : id \in R \cap DOMAIN objs}
    IN  IF R2 = R THEN R ELSE Closure(objs, R2)

\* The identities reachable from the trailer through references and containers.
Reachable(objs, tr) == Closure(objs, RefSet(Dict(tr)))

OnCycle(objs, id) == id \in DOMAIN objs /\ id \in Closure(objs, RefSet(objs[id]))

\* TRUE iff some sequence element or mapping entry of the value, at any depth,
\* is a reference to id.
RECURSIVE HoldsRefTo(_, _)
HoldsRefTo(o, id) ==
    CASE o.t = "arr" ->
            \E i \in 1..Len(o.v) : IsRefTo(o.v[i], id) \/ HoldsRefTo(o.v[i], id)
      [] o.t = "dict" ->
            \E k \in DOMAIN o.v : IsRefTo(o.v[k], id) \/ HoldsRefTo(o.v[k], id)
      [] o.t = "stream" ->
            \E k \in DOMAIN o.v.dict :
                IsRefTo(o.v.dict[k], id) \/ HoldsRefTo(o.v.dict[k], id)
      [] OTHER -> FALSE

\* A value with the identities of its references blanked: what renumbering keeps.
RECURSIVE Skeleton(_)
Skeleton(o) ==
    CASE o.t = "ref" -> Ref(<<0, 0>>)
      [] o.t = "arr" -> Arr([i \in 1..Len(o.v) |-> Skeleton(o.v[i])])
      [] o.t = "dict" -> Dict([k \in DOMAIN o.v |-> Skeleton(o.v[k])])
      [] o.t = "stream" ->
            Stream([k \in DOMAIN o.v.dict |-> Skeleton(o.v.dict[k])], o.v.content)
      [] OTHER -> o

\* The number of identities of S below id.
Rank(id, S) == Cardinality({j \in S : IdLess(j, id)})

\* TRUE iff the object under id2 after the call is the object under id1 before it.
SameObject(id1, id2) ==
    /\ id1 \in DOMAIN objects0
    /\ id2 \in DOMAIN objects
    /\ Skeleton(objects[id2]) = Skeleton(objects0[id1])

\* The holders of references: the trailer and every object of the table before
\* the call, each with its value before and after a renumbering.
TrailerHolder == <<0, 0>>

Holders == {TrailerHolder} \cup DOMAIN objects0

Before(h) == IF h = TrailerHolder THEN Dict(trailer0) ELSE objects0[h]

HasAfter(h) == h = TrailerHolder \/ \E id2 \in DOMAIN objects : SameObject(h, id2)

After(h) ==
    IF h = TrailerHolder THEN Dict(trailer)
    ELSE objects[CHOOSE id2 \in DOMAIN objects : SameObject(h, id2)]

----------------------------------------------------------------------------
(* Properties of delete_object, prune_objects and renumber_objects_with.    *)

\* C1: after delete_object(id), no sequence element and no mapping entry of the
\* trailer or of any object left in the table is a reference to id.
C1_NoReferenceRemains ==
    op = "delete_object" =>
        /\ ~HoldsRefTo(Dict(trailer), arg)
        /\ \A id \in DOMAIN objects : ~HoldsRefTo(objects[id], arg)

\* C2: prune_objects removes exactly the identities of the table that are not
\* reachable from the trailer, leaves every reachable object unchanged, and
\* returns exactly the removed identities.
C2_PruneExact ==
    op = "prune_objects" =>
        /\ DOMAIN objects = DOMAIN objects0 \cap Reachable(objects0, trailer0)
        /\ \A id \in DOMAIN objects : objects[id] = objects0[id]
        /\ trailer = trailer0
        /\ SeqToSet(ret) = DOMAIN objects0 \ DOMAIN objects
        /\ Len(ret) = Cardinality(SeqToSet(ret))

\* A prune that removed something and kept an object lying on a reference cycle.
C2_Witness ==
    /\ op = "prune_objects"
    /\ ret # <<>>
    /\ \E id \in DOMAIN objects : OnCycle(objects0, id)

\* C3: after renumber_objects_with, every reference held by the trailer or by
\* any object of the table that resolved to an object X before the call
\* resolves to X after it, and is unchanged when X kept its identity.
C3_ReferencesFollow ==
    op = "renumber_objects_with" =>
        \A h \in Holders :
            /\ HasAfter(h)
            /\ LET before == RefsIn(Before(h))
                   after == RefsIn(After(h))
               IN  /\ Len(after) = Len(before)
                   /\ \A i \in 1..Len(before) :
                        before[i] \in DOMAIN objects0 =>
                            /\ SameObject(before[i], after[i])
                            /\ SameObject(before[i], before[i]) => after[i] = before[i]

\* A renumbering in which an object unreachable from the trailer held a
\* reference to an object whose identity changed.
C3_Witness ==
    /\ op = "renumber_objects_with"
    /\ \E id \in DOMAIN objects0 \ Reachable(objects0, trailer0) :
         \E r \in RefSet(objects0[id]) \cap DOMAIN objects0 : ~SameObject(r, r)

\* C4: renumber_objects_with(s) on n objects leaves n objects numbered
\* s .. s+n-1, the k-th in ascending order carrying s+k-1 and its generation.
C4_DenseRenumbering ==
    op = "renumber_objects_with" =>
        LET n == Cardinality(DOMAIN objects0)
        IN  /\ Cardinality(DOMAIN objects) = n
            /\ {id[1] : id \in DOMAIN objects} = arg..(arg + n - 1)
            /\ \A id \in DOMAIN objects0 :
                 SameObject(id, <<arg + Rank(id, DOMAIN objects0), id[2]>>)

\* A renumbering in which the target number of one object was the number of
\* another object relocated after it.
C4_Witness ==
    /\ op = "renumber_objects_with"
    /\ \E a, b \in DOMAIN objects0 :
         /\ IdLess(a, b)
         /\ arg + Rank(a, DOMAIN objects0) = b[1]
         /\ arg + Rank(b, DOMAIN objects0) # b[1]

\* C10: a reference whose target was absent from the table before
\* renumber_objects_with resolves to no object after it.
C10_DanglingStaysDangling ==
    op = "renumber_objects_with" =>
        \A h \in Holders :
            HasAfter(h) =>
                LET before == RefsIn(Before(h))
                    after == RefsIn(After(h))
                IN  \A i \in 1..Len(before) :
                        (i <= Len(after) /\ before[i] \notin DOMAIN objects0)
                            => after[i] \notin DOMAIN objects

----------------------------------------------------------------------------
(* Accessors of Document and Object used by the operations below.           *)
(* Option and Result values: <<>> is None / Err, <<x>> is Some(x) / Ok(x).  *)

\* Dictionary::get(key).and_then(Object::as_reference)
GetRef(d, key) == IF key \in DOMAIN d /\ d[key].t = "ref" THEN <<d[key].v>> ELSE <<>>

\* Document::get_dictionary(id)
get_dictionary(objs, id) ==
    IF id \in DOMAIN objs /\ objs[id].t = "dict" THEN <<objs[id].v>> ELSE <<>>

\* Document::catalog(): the mapping the trailer's Root entry holds or references.
catalog(objs, tr) ==
    IF "Root" \notin DOMAIN tr THEN <<>>
    ELSE IF tr["Root"].t = "dict" THEN <<tr["Root"].v>>
    ELSE IF tr["Root"].t = "ref" THEN get_dictionary(objs, tr["Root"].v)
    ELSE <<>>

IsType(objs, id, type) ==
    /\ get_dictionary(objs, id) # <<>>
    /\ "Type" \in DOMAIN objs[id].v
    /\ objs[id].v["Type"] = Name(type)

\* The leaf pages below a page-tree node, in the order of Kids.
RECURSIVE collect_pages(_, _)
collect_pages(objs, page_tree_id) ==
    IF get_dictionary(objs, page_tree_id) = <<>> THEN <<>>
    ELSE LET page_tree == objs[page_tree_id].v
         IN  IF "Kids" \notin DOMAIN page_tree \/ page_tree["Kids"].t # "arr" THEN <<>>
             ELSE LET kids == page_tree["Kids"].v
                  IN  Flatten([i \in 1..Len(kids) |->
                        IF kids[i].t # "ref" THEN <<>>
                        ELSE IF IsType(objs, kids[i].v, "Page") THEN <<kids[i].v>>
                        ELSE IF IsType(objs, kids[i].v, "Pages")
                             THEN collect_pages(objs, kids[i].v)
                        ELSE <<>>])

\* Document::get_pages(): page number i is the i-th leaf of the page tree.
get_pages(objs, tr) ==
    LET cat == catalog(objs, tr)
    IN  IF cat = <<>> \/ GetRef(cat[1], "Pages") = <<>> THEN <<>>
        ELSE collect_pages(objs, GetRef(cat[1], "Pages")[1])

----------------------------------------------------------------------------
(* delete_pages (lines 44-64), one step per loop iteration.                 *)

\* lines 48-51: the deleted page's Parent, as a reference.
LeafParentRef(page) == IF page.t = "dict" THEN GetRef(page.v, "Parent") ELSE <<>>

\* A faulty variant of the walk: it stops after the first node.
TreeParentRefNone(page_tree) == <<>>

\* line 57: the node's Parent, as a reference.
TreeParentRef(page_tree) == GetRef(page_tree, "Parent")

\* lines 54-56: Count, when an integer, is decremented.
DecrementCount(page_tree) ==
    IF "Count" \in DOMAIN page_tree /\ page_tree["Count"].t = "int"
    THEN DictSet(page_tree, "Count", Integer(page_tree["Count"].v - 1))
    ELSE page_tree

PageNos == 1..(MaxLeaves + 4)

RECURSIVE SeqsUpTo(_, _)
SeqsUpTo(S, n) ==
    IF n = 0 THEN {<<>>}
    ELSE LET shorter == SeqsUpTo(S, n - 1)
         IN  shorter \cup {Append(q, x) : q \in shorter, x \in S}

\* line 45: the index is built, then the batch is walked.
DeletePagesCall ==
    /\ pc = "idle"
    /\ \E page_numbers \in SeqsUpTo(PageNos, MaxBatch) : queue' = page_numbers
    /\ pages' = get_pages(objects, trailer)
    /\ pc' = "for"
    /\ page_tree_ref' = <<>>
    /\ skipped' = 0
    /\ op' = "delete_pages"
    /\ objects0' = objects
    /\ trailer0' = trailer
    /\ UNCHANGED <<docVars, arg, ret, calls>>

\* lines 46-51: one page number of the batch.
DeletePagesFor ==
    /\ pc = "for"
    /\ queue # <<>>
    /\ queue' = Tail(queue)
    /\ LET page_number == Head(queue)
           page == IF page_number \in DOMAIN pages
                   THEN DeletedValue(objects, pages[page_number])
                   ELSE <<>>
       IN  /\ IF page_number \in DOMAIN pages
              THEN delete_object(pages[page_number])
              ELSE UNCHANGED <<objects, trailer, max_id>>
           /\ IF page # <<>>
              THEN /\ page_tree_ref' = LeafParentRef(page[1])
                   /\ pc' = "while"
                   /\ skipped' = skipped
              ELSE /\ page_tree_ref' = <<>>
                   /\ pc' = "for"
                   /\ skipped' = skipped + 1
    /\ UNCHANGED <<pages, op, arg, ret, objects0, trailer0, calls>>

\* lines 52-61: one test of the while condition and, when it holds, one body.
DeletePagesWhile ==
    /\ pc = "while"
    /\ IF page_tree_ref # <<>> /\ get_dictionary(objects, page_tree_ref[1]) # <<>>
       THEN LET page_tree_id == page_tree_ref[1]
                page_tree == DecrementCount(objects[page_tree_id].v)
            IN  /\ objects' = [objects EXCEPT ![page_tree_id] = Dict(page_tree)]
                /\ page_tree_ref' = TreeParentRef(page_tree)
                /\ pc' = "while"
       ELSE /\ page_tree_ref' = <<>>
            /\ pc' = "for"
            /\ UNCHANGED objects
    /\ UNCHANGED <<trailer, max_id, pages, queue, skipped, op, arg, ret,
                   objects0, trailer0, calls>>

\* line 64: the batch is exhausted.
DeletePagesReturn ==
    /\ pc = "for"
    /\ queue = <<>>
    /\ pc' = "idle"
    /\ pages' = <<>>
    /\ UNCHANGED <<docVars, queue, page_tree_ref, skipped, op, arg, ret,
                   objects0, trailer0, calls>>

NextPages == DeletePagesCall \/ DeletePagesFor \/ DeletePagesWhile \/ DeletePagesReturn

(* Page trees: a catalog, a root node, an inner node under it, and leaves.  *)

CatalogId == <<1, 0>>
RootId == <<2, 0>>
InnerId == <<3, 0>>
NestedId == <<4, 0>>

Leaf(parent) == Dict([Type |-> Name("Page"), Parent |-> Ref(parent)])

LeafIds(from, n) == [i \in 1..n |-> <<from + i, 0>>]

RefsOf(ids) == [i \in 1..Len(ids) |-> Ref(ids[i])]

Node(parent, kids, count) ==
    Dict([Type |-> Name("Pages"), Parent |-> Ref(parent),
          Kids |-> Arr(RefsOf(kids)), Count |-> Integer(count)])

\* a leaves, the inner node with b leaves (and, when nested, a node with one
\* leaf), then c leaves, all under the root.
PageTree(a, b, nested, c) ==
    LET before == LeafIds(10, a)
        inner == LeafIds(20, b)
        deep == LeafIds(30, IF nested THEN 1 ELSE 0)
        after == LeafIds(40, c)
        n == IF nested THEN 1 ELSE 0
        fixed == (CatalogId :> Dict([Type |-> Name("Catalog"), Pages |-> Ref(RootId)]))
              @@ (RootId :> Dict([Type |-> Name("Pages"),
                                  Kids |-> Arr(RefsOf(before \o <<InnerId>> \o after)),
                                  Count |-> Integer(a + b + n + c)]))
              @@ (InnerId :> Node(RootId, inner \o (IF nested THEN <<NestedId>> ELSE <<>>),
                                  b + n))
        leafParent(id) == IF id[1] < 20 \/ id[1] > 40 THEN RootId
                          ELSE IF id[1] < 30 THEN InnerId ELSE NestedId
        leaves == SeqToSet(before) \cup SeqToSet(inner) \cup SeqToSet(deep)
                    \cup SeqToSet(after)
        ids == {CatalogId, RootId, InnerId} \cup leaves
                 \cup (IF nested THEN {NestedId} ELSE {})
    IN  [id \in ids |->
            IF id \in DOMAIN fixed THEN fixed[id]
            ELSE IF id = NestedId THEN Node(InnerId, deep, 1)
            ELSE Leaf(leafParent(id))]

PagesInitRest ==
    /\ trailer = [Root |-> Ref(CatalogId)]
    /\ max_id = 50
    /\ op = "none" /\ arg = 0 /\ ret = <<>>
    /\ objects0 = objects /\ trailer0 = trailer
    /\ pc = "idle" /\ pages = <<>> /\ queue = <<>> /\ page_tree_ref = <<>>
    /\ skipped = 0
    /\ calls = 0

InitPages ==
    /\ \E a \in 0..1, b \in 0..MaxLeaves, nested \in BOOLEAN, c \in 0..1 :
         objects = PageTree(a, b, nested, c)
    /\ PagesInitRest

SpecPages == InitPages /\ [][NextPages]_vars

\* A node with its Count removed.
WithoutCount(node) == Dict(DictRemove(node.v, "Count"))

\* Page trees whose root names the inner node as its Parent, so that the
\* Parent references of the two form a cycle; neither carries a Count.
InitPagesAny ==
    /\ \E a \in 0..1, b \in 0..MaxLeaves, nested \in BOOLEAN, c \in 0..1 :
         \E cyclic \in BOOLEAN :
            LET tree == PageTree(a, b, nested, c)
            IN  objects =
                  IF cyclic
                  THEN [tree EXCEPT
                          ![RootId] = WithoutCount(Dict(DictSet(@.v, "Parent", Ref(InnerId)))),
                          ![InnerId] = WithoutCount(@)]
                  ELSE tree
    /\ PagesInitRest

\* The handler runs on: a step that is possible is eventually taken.
SpecPagesFair == InitPagesAny /\ [][NextPages]_vars /\ WF_vars(NextPages)

----------------------------------------------------------------------------
(* Properties of delete_pages.                                              *)

IsPagesNode(objs, id) == IsType(objs, id, "Pages")

\* The leaf pages below a node, found through Kids.
LeafSet(objs, id) == SeqToSet(collect_pages(objs, id))

CountOf(objs, id) == objs[id].v["Count"].v

\* C5: between delete_pages calls every page-tree node's Count is its number
\* of leaf descendants, and a call lowered each Count by the number of the
\* node's leaf descendants it deleted, and by nothing else.
C5_CountInvariant ==
    pc = "idle" =>
        \A id \in DOMAIN objects :
            IsPagesNode(objects, id) =>
                /\ CountOf(objects, id) = Cardinality(LeafSet(objects, id))
                /\ CountOf(objects, id) =
                     CountOf(objects0, id)
                       - Cardinality(LeafSet(objects0, id) \ DOMAIN objects)

\* A finished call that deleted a leaf two levels below the root and skipped
\* a page number of its batch (absent or repeated).
C5_Witness ==
    /\ pc = "idle"
    /\ op = "delete_pages"
    /\ skipped > 0
    /\ NestedId \in DOMAIN objects
    /\ CountOf(objects, NestedId) < CountOf(objects0, NestedId)

\* C9: every delete_pages call returns.
C9_DeletePagesTerminates == (pc # "idle") ~> (pc = "idle")

----------------------------------------------------------------------------
(* Streams and the minting of objects.  A stream value is                   *)
(* [dict, content], content a sequence of bytes.                            *)

\* Stream::new
NewStream(dict, content) == Stream(DictSet(dict, "Length", Integer(Len(content))), content)

\* The content filter, as an encoding that differs from its input.
Deflate(bytes) == <<0>> \o bytes

Inflate(bytes) == Tail(bytes)

\* Stream::set_plain_content: the bytes are stored and the encoding state dropped.
set_plain_content(stream, content) ==
    [dict |-> DictSet(Restrict(stream.dict, DOMAIN stream.dict \ {"Filter", "DecodeParms"}),
                      "Length", Integer(Len(content))),
     content |-> content]

\* Stream::compress: a stream with no filter is encoded when that pays.
compress(stream) ==
    IF "Filter" \notin DOMAIN stream.dict /\ Len(stream.content) >= 3
    THEN [dict |-> DictSet(DictSet(stream.dict, "Filter", Name("FlateDecode")),
                           "Length", Integer(Len(Deflate(stream.content)))),
          content |-> Deflate(stream.content)]
    ELSE stream

\* Stream::decompressed_content
decompressed_content(stream) ==
    IF "Filter" \in DOMAIN stream.dict /\ stream.dict["Filter"] = Name("FlateDecode")
    THEN Inflate(stream.content)
    ELSE stream.content

\* Document::new_object_id / the identity Document::add_object mints.
new_object_id(mid) == <<mid + 1, 0>>

----------------------------------------------------------------------------
(* change_content_stream (lines 183-191), change_page_content (193-214).    *)

change_content_stream(objs, stream_id, content) ==
    IF stream_id \in DOMAIN objs /\ objs[stream_id].t = "stream"
    THEN [objs EXCEPT ![stream_id] =
            [t |-> "stream", v |-> compress(set_plain_content(@.v, content))]]
    ELSE objs

\* lines 203-208: a new stream is added and the page repointed to it.
ReplaceContents(objs, mid, page_id, content) ==
    LET new_stream == new_object_id(mid)
        added == Insert(objs, new_stream, NewStream(EmptyDict, content))
    IN  [objects |-> IF page_id \in DOMAIN added /\ added[page_id].t = "dict"
                     THEN [added EXCEPT ![page_id] =
                             Dict(DictSet(@.v, "Contents", Ref(new_stream)))]
                     ELSE added,
         max_id |-> mid + 1,
         ret |-> "Ok"]

change_page_content(objs, mid, page_id, content) ==
    LET page == get_dictionary(objs, page_id)
        same == [objects |-> objs, max_id |-> mid, ret |-> "Ok"]
    IN  IF page = <<>> \/ "Contents" \notin DOMAIN page[1]
        THEN [objects |-> objs, max_id |-> mid, ret |-> "Err"]
        ELSE LET contents == page[1]["Contents"]
             IN  CASE contents.t = "ref" ->
                        [same EXCEPT !.objects = change_content_stream(objs, contents.v, content)]
                   [] contents.t = "arr" ->
                        IF Len(contents.v) = 1
                        THEN IF contents.v[1].t = "ref"
                             THEN [same EXCEPT !.objects =
                                     change_content_stream(objs, contents.v[1].v, content)]
                             ELSE same
                        ELSE ReplaceContents(objs, mid, page_id, content)
                   [] OTHER -> same

(* Documents of the content specification: a page (1,0), two streams, a     *)
(* dictionary, and an array of stream references held as an object.         *)

PageId == <<1, 0>>

\* The values of the page's Contents entry; 0 stands for no entry.
ContentsEntries ==
    << Ref(<<2, 0>>), Ref(<<4, 0>>), Ref(<<5, 0>>), Ref(<<9, 0>>),
       Arr(<<Ref(<<2, 0>>)>>), Arr(<<Ref(<<9, 0>>)>>), Arr(<<Integer(7)>>), Arr(<<>>),
       Arr(<<Ref(<<2, 0>>), Ref(<<3, 0>>)>>), Integer(7) >>

ByteStrings == {<<>>, <<5>>, <<5, 6, 7>>}

ContentDocument(entry, old) ==
    (PageId :> Dict(IF entry = 0 THEN [Type |-> Name("Page")]
                    ELSE [Type |-> Name("Page"), Contents |-> ContentsEntries[entry]]))
    @@ (<<2, 0>> :> [t |-> "stream", v |-> compress(NewStream(EmptyDict, old).v)])
    @@ (<<3, 0>> :> NewStream(EmptyDict, <<9>>))
    @@ (<<4, 0>> :> Dict([Type |-> Name("Font")]))
    @@ (<<5, 0>> :> Arr(<<Ref(<<2, 0>>), Ref(<<3, 0>>)>>))

InitContent ==
    /\ \E entry \in 0..Len(ContentsEntries), old \in ByteStrings :
         objects = ContentDocument(entry, old)
    /\ trailer = [Root |-> Ref(PageId)]
    /\ max_id = 5
    /\ op = "none" /\ arg = 0 /\ ret = "Ok"
    /\ objects0 = objects /\ trailer0 = trailer
    /\ pc = "idle" /\ pages = <<>> /\ queue = <<>> /\ page_tree_ref = <<>>
    /\ skipped = 0
    /\ calls = 0

ChangePageContent ==
    \E page_id \in {PageId, <<2, 0>>, <<9, 0>>}, content \in ByteStrings :
        LET r == change_page_content(objects, max_id, page_id, content)
        IN  /\ objects' = r.objects
            /\ max_id' = r.max_id
            /\ ret' = r.ret
            /\ UNCHANGED trailer
            /\ Snapshot("change_page_content", [page_id |-> page_id, content |-> content])
            /\ UNCHANGED pageVars

ChangeContentStream ==
    \E stream_id \in {<<2, 0>>, <<4, 0>>, <<9, 0>>}, content \in ByteStrings :
        /\ objects' = change_content_stream(objects, stream_id, content)
        /\ ret' = "Ok"
        /\ UNCHANGED <<trailer, max_id>>
        /\ Snapshot("change_content_stream", [stream_id |-> stream_id, content |-> content])
        /\ UNCHANGED pageVars

NextContent == ChangePageContent \/ ChangeContentStream

SpecContent == InitContent /\ [][NextContent]_vars

----------------------------------------------------------------------------
(* Properties of change_page_content.                                       *)

\* The one stream a content entry references: by a single reference, or by a
\* sequence whose sole element is a reference.  <<>> when there is none.
TheOneStream(objs, entry) ==
    LET target == IF entry.t = "ref" THEN <<entry.v>>
                  ELSE IF entry.t = "arr" /\ Len(entry.v) = 1 /\ entry.v[1].t = "ref"
                       THEN <<entry.v[1].v>>
                  ELSE <<>>
    IN  IF target # <<>> /\ target[1] \in DOMAIN objs /\ objs[target[1]].t = "stream"
        THEN target
        ELSE <<>>

\* C6: a successful change_page_content replaces the content of the one
\* stream the page's content entry references and adds no object; in every
\* other case it adds a stream holding the bytes, makes the entry reference
\* only that stream, and leaves the streams referenced before as they were.
C6_PageContentReplaced ==
    (op = "change_page_content" /\ ret = "Ok") =>
        LET entry == objects0[arg.page_id].v["Contents"]
            one == TheOneStream(objects0, entry)
        IN  IF one # <<>>
            THEN /\ DOMAIN objects = DOMAIN objects0
                 /\ decompressed_content(objects[one[1]].v) = arg.content
            ELSE \E new \in DOMAIN objects \ DOMAIN objects0 :
                    /\ objects[new].t = "stream"
                    /\ decompressed_content(objects[new].v) = arg.content
                    /\ objects[arg.page_id].v["Contents"] = Ref(new)
                    /\ \A id \in RefSet(entry) \cap DOMAIN objects0 :
                         objects[id] = objects0[id]

----------------------------------------------------------------------------
(* list_attachments (lines 241-278) and add_attachment (lines 280-358).     *)

\* lines 244-248 and 250-254: a mapping held directly or by reference.
AsDictOrRef(objs, o) ==
    IF o.t = "dict" THEN <<o.v>>
    ELSE IF o.t = "ref" THEN get_dictionary(objs, o.v)
    ELSE <<>>

\* lines 256-260 and 313-317: a sequence held directly or by reference.
AsArrayOrRef(objs, o) ==
    IF o.t = "arr" THEN <<o.v>>
    ELSE IF o.t = "ref" /\ o.v \in DOMAIN objs /\ objs[o.v].t = "arr" THEN <<objs[o.v].v>>
    ELSE <<>>

\* The strings list_attachments prints.
list_attachments(objs, tr) ==
    LET catalog_obj == catalog(objs, tr)[1]
        names_dict == IF "Names" \in DOMAIN catalog_obj
                      THEN AsDictOrRef(objs, catalog_obj["Names"]) ELSE <<>>
        ef_dict == IF names_dict # <<>> /\ "EmbeddedFiles" \in DOMAIN names_dict[1]
                   THEN AsDictOrRef(objs, names_dict[1]["EmbeddedFiles"]) ELSE <<>>
        name_tree == IF ef_dict # <<>> /\ "Names" \in DOMAIN ef_dict[1]
                     THEN AsArrayOrRef(objs, ef_dict[1]["Names"]) ELSE <<>>
    IN  IF name_tree = <<>> THEN <<>>
        ELSE LET strings == SelectSeq(name_tree[1], LAMBDA item : item.t = "str")
             IN  [i \in 1..Len(strings) |-> strings[i].v]

\* PathBuf::file_name: the last component of the path.
file_name(path) == path[Len(path)]

\* lines 289-293: the Names mapping created when the catalog has none.
NamesSkeleton(names_tree_id) ==
    Dict([EmbeddedFiles |-> Dict([Names |-> Ref(names_tree_id)])])

\* lines 303-305: the EmbeddedFiles mapping created when Names has none.
EmbeddedFilesSkeleton(names_tree_id) == Dict([Names |-> Ref(names_tree_id)])

\* lines 354-357: the catalog with its Names is written to the trailer's Root.
Commit(objs, tr, mid, cat, names) ==
    [objects |-> objs,
     trailer |-> DictSet(tr, "Root", Dict(DictSet(cat, "Names", names))),
     max_id |-> mid,
     ret |-> "Ok"]

\* A faulty variant of the failing read: the structures built so far are
\* committed to the trailer before the error is returned.
ReadFailureCommitted(objs, tr, mid, cat, names) ==
    [Commit(objs, tr, mid, cat, names) EXCEPT !.ret = "Io"]

\* lines 325-326: the error of File::open / read_to_end is returned at once.
ReadFailure(objs, tr, mid, cat, names) ==
    [objects |-> objs, trailer |-> tr, max_id |-> mid, ret |-> "Io"]

\* lines 299 and 312: as_dict()? on a value that is no mapping.
TypeFailure(objs, tr, mid) ==
    [objects |-> objs, trailer |-> tr, max_id |-> mid, ret |-> "Type"]

\* lines 318-350: the file's objects are added and the pair appended.
Attach(objs, tr, mid, cat, names, ef_dict, name_arr, path, buffer) ==
    LET file_stream_id == <<mid + 1, 0>>
        ef_id == <<mid + 2, 0>>
        filespec == <<mid + 3, 0>>
        size == Integer(Len(buffer))
        fs_obj == [t |-> "stream",
                   v |-> compress(NewStream([DL |-> size, Params |-> Dict([Size |-> size])],
                                            buffer).v)]
        objs1 == Insert(objs, file_stream_id, fs_obj)
        objs2 == Insert(objs1, ef_id, Dict([F |-> Ref(file_stream_id)]))
        objs3 == Insert(objs2, filespec,
                        Dict([Type |-> Name("Filespec"), F |-> Str(file_name(path)),
                              EF |-> Ref(ef_id)]))
        new_names == name_arr \o <<Str(file_name(path)), Ref(filespec)>>
        ef_dict1 == Dict(DictSet(ef_dict, "Names", Arr(new_names)))
        names1 == Dict(DictSet(names, "EmbeddedFiles", ef_dict1))
    IN  Commit(objs3, tr, mid + 3, cat, names1)

\* file: <<>> when opening or reading fails, else <<bytes>>.
add_attachment(objs, tr, mid, path, file) ==
    LET cat == catalog(objs, tr)[1]
        \* lines 285-297
        s1 == IF "Names" \in DOMAIN cat
              THEN [objects |-> objs, max_id |-> mid, names |-> cat["Names"]]
              ELSE LET names_tree_id == new_object_id(mid)
                       names_id == new_object_id(mid + 1)
                       objs1 == Insert(Insert(objs, names_id, NamesSkeleton(names_tree_id)),
                                       names_tree_id, Arr(<<>>))
                   IN  [objects |-> objs1, max_id |-> mid + 2, names |-> objs1[names_id]]
    IN  IF s1.names.t # "dict" THEN TypeFailure(s1.objects, tr, s1.max_id)
        ELSE
        LET \* lines 299-310
            s2 == IF "EmbeddedFiles" \in DOMAIN s1.names.v
                  THEN [objects |-> s1.objects, max_id |-> s1.max_id, names |-> s1.names.v,
                        ef_dict |-> s1.names.v["EmbeddedFiles"]]
                  ELSE LET names_tree_id == new_object_id(s1.max_id)
                           ef_id == new_object_id(s1.max_id + 1)
                           objs2 == Insert(Insert(s1.objects, ef_id,
                                                  EmbeddedFilesSkeleton(names_tree_id)),
                                           names_tree_id, Arr(<<>>))
                       IN  [objects |-> objs2, max_id |-> s1.max_id + 2,
                            names |-> DictSet(s1.names.v, "EmbeddedFiles", Ref(ef_id)),
                            ef_dict |-> objs2[ef_id]]
        IN  IF s2.ef_dict.t # "dict" THEN TypeFailure(s2.objects, tr, s2.max_id)
            ELSE
            LET \* lines 312-317
                name_arr == IF "Names" \in DOMAIN s2.ef_dict.v
                            THEN AsArrayOrRef(s2.objects, s2.ef_dict.v["Names"])
                            ELSE <<>>
            IN  IF name_arr = <<>>
                THEN Commit(s2.objects, tr, s2.max_id, cat, Dict(s2.names))
                ELSE IF file = <<>>
                THEN ReadFailure(s2.objects, tr, s2.max_id, cat, Dict(s2.names))
                ELSE Attach(s2.objects, tr, s2.max_id, cat, s2.names, s2.ef_dict.v,
                            name_arr[1], path, file[1])

(* Documents of the attachment specification: a catalog held by the         *)
(* trailer directly or by reference, with every state of the                *)
(* Names / EmbeddedFiles / Names chain.                                     *)

OldPair == <<Str("old.txt"), Ref(<<5, 0>>)>>

\* The values of the innermost Names entry; 0 stands for no entry.
NameTrees == <<Arr(<<>>), Arr(OldPair), Ref(<<6, 0>>), Ref(<<9, 0>>), Integer(7)>>

EmbeddedFilesOf(tree) ==
    Dict(IF tree = 0 THEN EmptyDict ELSE [Names |-> NameTrees[tree]])

\* The values of the catalog's Names entry.
NamesEntries ==
    [i \in 1..(Len(NameTrees) + 1) |-> Dict([EmbeddedFiles |-> EmbeddedFilesOf(i - 1)])]
    \o << Dict(EmptyDict),
          Dict([EmbeddedFiles |-> Ref(<<7, 0>>)]),
          Ref(<<8, 0>>) >>

CatalogOf(k) ==
    IF k = Len(NamesEntries) + 1 THEN [Type |-> Name("Catalog")]
    ELSE [Type |-> Name("Catalog"), Names |-> NamesEntries[k]]

AttachObjects ==
    (<<5, 0>> :> Dict([Type |-> Name("Filespec"), F |-> Str("old.txt")]))
    @@ (<<6, 0>> :> Arr(OldPair))
    @@ (<<7, 0>> :> Dict([Names |-> Arr(OldPair)]))
    @@ (<<8, 0>> :> Dict([EmbeddedFiles |-> Dict([Names |-> Arr(OldPair)])]))

InitAttach ==
    /\ \E k \in 1..(Len(NamesEntries) + 1), inline \in BOOLEAN :
         IF inline
         THEN /\ objects = AttachObjects
              /\ trailer = [Root |-> Dict(CatalogOf(k))]
         ELSE /\ objects = (CatalogId :> Dict(CatalogOf(k))) @@ AttachObjects
              /\ trailer = [Root |-> Ref(CatalogId)]
    /\ max_id = 8
    /\ op = "none" /\ arg = 0 /\ ret = "Ok"
    /\ objects0 = objects /\ trailer0 = trailer
    /\ pc = "idle" /\ pages = <<>> /\ queue = <<>> /\ page_tree_ref = <<>>
    /\ skipped = 0
    /\ calls = 0

Paths == {<<"a.txt">>, <<"dir", "b.txt">>}

FileReads == {<<>>, <<<<5>>>>, <<<<5, 6, 7>>>>}

AddAttachment ==
    \E path \in Paths, file \in FileReads :
        LET r == add_attachment(objects, trailer, max_id, path, file)
        IN  /\ objects' = r.objects
            /\ trailer' = r.trailer
            /\ max_id' = r.max_id
            /\ ret' = r.ret
            /\ SnapshotWithin("add_attachment", [path |-> path, file |-> file], MaxAttach)
            /\ UNCHANGED pageVars

ListAttachments ==
    /\ ret' = list_attachments(objects, trailer)
    /\ UNCHANGED docVars
    /\ SnapshotWithin("list_attachments", 0, MaxAttach)
    /\ UNCHANGED pageVars

NextAttach == AddAttachment \/ ListAttachments

SpecAttach == InitAttach /\ [][NextAttach]_vars

----------------------------------------------------------------------------
(* Properties of add_attachment.                                            *)

\* A mapping or sequence reached by one hop: the value itself, or the object
\* it references.
Hop(objs, holder, key) ==
    IF holder = <<>> \/ holder[1].t # "dict" \/ key \notin DOMAIN holder[1].v THEN <<>>
    ELSE LET o == holder[1].v[key]
         IN  IF o.t = "ref"
             THEN IF o.v \in DOMAIN objs THEN <<objs[o.v]>> ELSE <<>>
             ELSE <<o>>

\* The flat name sequence found from the trailer through Root, Names,
\* EmbeddedFiles and Names; <<>> when the chain does not resolve to a sequence.
NameSequence(objs, tr) ==
    LET tree == Hop(objs, Hop(objs, Hop(objs, Hop(objs, <<Dict(tr)>>, "Root"), "Names"),
                              "EmbeddedFiles"), "Names")
    IN  IF tree # <<>> /\ tree[1].t = "arr" THEN tree[1].v ELSE <<>>

IsFilespec(objs, id, name) ==
    /\ get_dictionary(objs, id) # <<>>
    /\ "F" \in DOMAIN objs[id].v
    /\ objs[id].v["F"] = Str(name)

\* C7: each successful add_attachment appends to the flat name sequence
\* found from the trailer the pair (base name, reference to a filespec of
\* the table), after the entries listed before; list_attachments then
\* reports the names listed before and the base name.
C7_AttachmentListed ==
    (op = "add_attachment" /\ ret = "Ok") =>
        LET before == NameSequence(objects0, trailer0)
            after == NameSequence(objects, trailer)
            n == Len(before)
            name == file_name(arg.path)
        IN  /\ Len(after) = n + 2
            /\ \A i \in 1..n : after[i] = before[i]
            /\ after[n + 1] = Str(name)
            /\ after[n + 2].t = "ref"
            /\ IsFilespec(objects, after[n + 2].v, name)
            /\ list_attachments(objects, trailer)
                 = Append(list_attachments(objects0, trailer0), name)

\* add_attachment on a catalog without Names, the read of the file failing.
FailedReadWithoutNames ==
    /\ op = "add_attachment"
    /\ arg.file = <<>>
    /\ "Names" \notin DOMAIN catalog(objects0, trailer0)[1]

\* C8 as stated: the I/O error is returned and the skeleton created before
\* the read is left committed to the trailer.
C8_SkeletonCommitted ==
    FailedReadWithoutNames =>
        /\ ret = "Io"
        /\ Hop(objects, Hop(objects, Hop(objects, <<Dict(trailer)>>, "Root"), "Names"),
               "EmbeddedFiles") # <<>>

\* C8 amended: the I/O error is returned without rollback; the skeleton (the
\* Names mapping and the empty sequence) is left in the object table under
\* two new identities, while the trailer and every earlier object are
\* unchanged, so nothing reachable from the trailer names the skeleton.
C8_SkeletonOrphaned ==
    FailedReadWithoutNames =>
        /\ ret = "Io"
        /\ trailer = trailer0
        /\ \A id \in DOMAIN objects0 : id \in DOMAIN objects /\ objects[id] = objects0[id]
        /\ LET new == DOMAIN objects \ DOMAIN objects0
           IN  /\ Cardinality(new) = 2
               /\ \E names_id, names_tree_id \in new :
                    /\ objects[names_id] = NamesSkeleton(names_tree_id)
                    /\ objects[names_tree_id] = Arr(<<>>)
               /\ new \cap Reachable(objects, trailer) = {}
               /\ \A id \in new : id[1] <= max_id

\* A failed read on a catalog without Names, after an earlier call.
C8_Witness ==
    /\ FailedReadWithoutNames
    /\ ret = "Io"
    /\ calls = 2

====
